---- MODULE Spec2Model ----
(***************************************************************************)
(* The text-annotation subsystem of the study-notes application: the code  *)
(* tokenizer, the highlight merge of prose and code fields, offset capture *)
(* from a DOM selection, and the popover / annotation-list handlers of the *)
(* lesson view.  Text is a sequence of one-character strings; offsets are  *)
(* zero-based and half-open as in the source.                              *)
(***************************************************************************)
EXTENDS Integers, Sequences, FiniteSets, TLC

\* ------------------------------------------------------------------------
\* Character classes of the regular expressions (LessonView.tsx 251-258)
\* ------------------------------------------------------------------------

Lower == {"a","b","c","d","e","f","g","h","i","j","k","l","m",
          "n","o","p","q","r","s","t","u","v","w","x","y","z"}

Upper == {"A","B","C","D","E","F","G","H","I","J","K","L","M",
          "N","O","P","Q","R","S","T","U","V","W","X","Y","Z"}

Digits == {"0","1","2","3","4","5","6","7","8","9"}

\* word characters
WordChars == Lower \cup Upper \cup Digits \cup {"_"}

\* whitespace characters
Whitespace == {" ", "\t", "\n", "\r", "\f"}

\* the characters `.` does not match
LineTerminators == {"\n", "\r"}

\* the operator character class
OperatorChars == {"=","+","-","*","/","%","&","|","<",">","!","^","~","?",":","."}

\* the punctuation character class
PunctuationChars == {"{","}","(",")","[","]",".",",",";"}

\* the backquote character, which has no string literal of its own here
Backquote == "backquote"

Quotes == {"\"", "'", Backquote}

\* the keyword alternation, in the order of the source
Keywords ==
    <<
       <<"p","u","b","l","i","c">>,
       <<"p","r","i","v","a","t","e">>,
       <<"p","r","o","t","e","c","t","e","d">>,
       <<"s","t","a","t","i","c">>,
       <<"f","i","n","a","l">>,
       <<"v","o","i","d">>,
       <<"c","l","a","s","s">>,
       <<"i","n","t","e","r","f","a","c","e">>,
       <<"e","n","u","m">>,
       <<"e","x","t","e","n","d","s">>,
       <<"i","m","p","l","e","m","e","n","t","s">>,
       <<"n","e","w">>,
       <<"i","m","p","o","r","t">>,
       <<"p","a","c","k","a","g","e">>,
       <<"r","e","t","u","r","n">>,
       <<"i","f">>,
       <<"e","l","s","e">>,
       <<"f","o","r">>,
       <<"w","h","i","l","e">>,
       <<"d","o">>,
       <<"s","w","i","t","c","h">>,
       <<"c","a","s","e">>,
       <<"b","r","e","a","k">>,
       <<"c","o","n","t","i","n","u","e">>,
       <<"t","r","y">>,
       <<"c","a","t","c","h">>,
       <<"f","i","n","a","l","l","y">>,
       <<"t","h","r","o","w">>,
       <<"t","h","r","o","w","s">>,
       <<"c","o","n","s","t">>,
       <<"l","e","t">>,
       <<"v","a","r">>,
       <<"f","u","n","c","t","i","o","n">>,
       <<"a","s","y","n","c">>,
       <<"a","w","a","i","t">>,
       <<"e","x","p","o","r","t">>,
       <<"d","e","f","a","u","l","t">>,
       <<"i","n","t">>,
       <<"b","o","o","l","e","a","n">>,
       <<"d","o","u","b","l","e">>,
       <<"f","l","o","a","t">>,
       <<"t","r","u","e">>,
       <<"f","a","l","s","e">>,
       <<"n","u","l","l">>,
       <<"t","h","i","s">>,
       <<"f","r","o","m">>,
       <<"o","f">>,
       <<"i","n">>,
       <<"t","y","p","e">>,
       <<"i","n","s","t","a","n","c","e","o","f">>,
       <<"d","e","l","e","t","e">>,
       <<"y","i","e","l","d">>
    >>

\* ------------------------------------------------------------------------
\* JavaScript string primitives
\* ------------------------------------------------------------------------

Min(a, b) == IF a < b THEN a ELSE b

Max(a, b) == IF a > b THEN a ELSE b

Clamp(i, n) == Max(0, Min(i, n))

\* String.prototype.substring(a, b): both ends clamped to [0, length] and
\* swapped when a > b
Substring(s, a, b) ==
    LET x == Clamp(a, Len(s))
        y == Clamp(b, Len(s))
    IN  SubSeq(s, Min(x, y) + 1, Max(x, y))

\* String.prototype.substring(a)
SubstringFrom(s, a) == Substring(s, a, Len(s))

\* the end of the longest run of characters of S that starts at offset p
RunEnd(s, p, S) ==
    CHOOSE e \in p..Len(s) :
        /\ \A i \in p..(e - 1) : s[i + 1] \in S
        /\ (e = Len(s) \/ s[e + 1] \notin S)

\* the start of the longest run of characters of S that ends at offset p
RunStart(s, p, S) ==
    CHOOSE b \in 0..p :
        /\ \A i \in b..(p - 1) : s[i + 1] \in S
        /\ (b = 0 \/ s[b] \notin S)

\* String.prototype.trim()
Trim(s) ==
    LET b == RunEnd(s, 0, Whitespace)
    IN  IF b = Len(s) THEN <<>>
        ELSE SubSeq(s, b + 1, RunStart(s, Len(s), Whitespace))

StartsWith(s, pre) ==
    Len(s) >= Len(pre) /\ SubSeq(s, 1, Len(pre)) = pre

EndsWith(s, suf) ==
    Len(s) >= Len(suf) /\ SubSeq(s, Len(s) - Len(suf) + 1, Len(s)) = suf

\* the pattern occurs in s at offset p
OccursAt(s, p, pat) ==
    p + Len(pat) <= Len(s) /\ SubSeq(s, p + 1, p + Len(pat)) = pat

RECURSIVE Concat(_)
Concat(ss) == IF ss = <<>> THEN <<>> ELSE Head(ss) \o Concat(Tail(ss))

\* ------------------------------------------------------------------------
\* The tokenizer: SyntaxHighlightedText
\* ------------------------------------------------------------------------

NoMatch == [index |-> -1, end |-> -1, type |-> "none"]

IsWordAt(s, p) == p >= 0 /\ p < Len(s) /\ s[p + 1] \in WordChars

\* the word-boundary assertion
WordBoundary(s, p) == IsWordAt(s, p - 1) # IsWordAt(s, p)

\* comment rule (a line comment to the end of the line, or a block
\* comment up to its first closing delimiter): the end of the match at p,
\* or -1
CommentEnd(s, p) ==
    IF OccursAt(s, p, <<"/", "/">>)
    THEN RunEnd(s, p + 2, {s[i] : i \in 1..Len(s)} \ LineTerminators)
    ELSE IF OccursAt(s, p, <<"/", "*">>)
              /\ \E q \in (p + 2)..Len(s) : OccursAt(s, q, <<"*", "/">>)
    THEN (CHOOSE q \in (p + 2)..Len(s) :
              /\ OccursAt(s, q, <<"*", "/">>)
              /\ \A r \in (p + 2)..(q - 1) : ~OccursAt(s, r, <<"*", "/">>)) + 2
    ELSE -1

\* string rule: the lazy body stops at the first closing quote,
\* and `.` does not cross a line terminator
StringEnd(s, p) ==
    IF s[p + 1] \in Quotes
    THEN LET body == RunEnd(s, p + 1, {s[i] : i \in 1..Len(s)}
                                        \ (LineTerminators \cup {s[p + 1]}))
         IN  IF body < Len(s) /\ s[body + 1] = s[p + 1] THEN body + 1 ELSE -1
    ELSE -1

\* keyword rule: at a word boundary, the first keyword of the alternation that
\* occurs at p and is followed by a word boundary
KeywordEnd(s, p) ==
    LET hits == {k \in 1..Len(Keywords) :
                    /\ OccursAt(s, p, Keywords[k])
                    /\ WordBoundary(s, p + Len(Keywords[k]))}
    IN  IF WordBoundary(s, p) /\ hits # {}
        THEN p + Len(Keywords[CHOOSE k \in hits : \A j \in hits : k <= j])
        ELSE -1

\* number rule (digits, an optional dot, digits, between word boundaries):
\* greedy, so the longest candidate end that is a word
\* boundary; inside a digit run there is none
NumberEnd(s, p) ==
    IF s[p + 1] \in Digits /\ WordBoundary(s, p)
    THEN LET e1 == RunEnd(s, p, Digits)
             hasDot == e1 < Len(s) /\ s[e1 + 1] = "."
             cands == {e1} \cup (IF hasDot
                                 THEN (e1 + 1)..RunEnd(s, e1 + 1, Digits)
                                 ELSE {})
             ok == {e \in cands : WordBoundary(s, e)}
         IN  IF ok = {} THEN -1 ELSE CHOOSE e \in ok : \A f \in ok : f <= e
    ELSE -1

\* function rule (a word run followed, after optional whitespace, by an
\* opening parenthesis): no word boundary in front, so it may start inside a word
FunctionEnd(s, p) ==
    IF s[p + 1] \in WordChars
    THEN LET e == RunEnd(s, p, WordChars)
             w == RunEnd(s, e, Whitespace)
         IN  IF w < Len(s) /\ s[w + 1] = "(" THEN e ELSE -1
    ELSE -1

\* className rule: a capitalised word between word boundaries
ClassNameEnd(s, p) ==
    IF s[p + 1] \in Upper /\ WordBoundary(s, p)
    THEN RunEnd(s, p, WordChars)
    ELSE -1

\* an operator rule that matches a run of any length, the empty one too
OperatorEnd_MatchesEmpty(s, p) == RunEnd(s, p, OperatorChars)

\* operator rule: a run of operator characters
OperatorEnd(s, p) ==
    IF s[p + 1] \in OperatorChars THEN RunEnd(s, p, OperatorChars) ELSE -1

\* punctuation rule: one punctuation character
PunctuationEnd(s, p) ==
    IF s[p + 1] \in PunctuationChars THEN p + 1 ELSE -1

\* tokenDefinitions, in order of precedence
TokenTypes ==
    <<"comment", "string", "keyword", "number",
      "function", "className", "operator", "punctuation">>

RuleEnd(type, s, p) ==
    CASE type = "comment"     -> CommentEnd(s, p)
      [] type = "string"      -> StringEnd(s, p)
      [] type = "keyword"     -> KeywordEnd(s, p)
      [] type = "number"      -> NumberEnd(s, p)
      [] type = "function"    -> FunctionEnd(s, p)
      [] type = "className"   -> ClassNameEnd(s, p)
      [] type = "operator"    -> OperatorEnd(s, p)
      [] type = "punctuation" -> PunctuationEnd(s, p)

RECURSIVE FirstRule(_, _, _)
\* the rules from the k-th on, in order, until one matches at p
FirstRule(s, p, k) ==
    IF k > Len(TokenTypes) THEN NoMatch
    ELSE LET e == RuleEnd(TokenTypes[k], s, p)
         IN  IF e # -1
             THEN [index |-> p, end |-> e, type |-> TokenTypes[k]]
             ELSE FirstRule(s, p, k + 1)

\* the master alternation tried at one offset: the first rule that matches
MatchAt(s, p) == FirstRule(s, p, 1)

RECURSIVE Exec(_, _)
\* masterRegex.exec(text) with the g flag: the leftmost match at or after
\* lastIndex
Exec(s, lastIndex) ==
    IF lastIndex >= Len(s) THEN NoMatch
    ELSE LET m == MatchAt(s, lastIndex)
         IN  IF m # NoMatch THEN m ELSE Exec(s, lastIndex + 1)

\* the `new MyClass()` heuristic: a function match that starts with a
\* capital gets the className style when the trimmed text before it ends
\* with the letters n, e, w
ClassOf(s, m) ==
    IF /\ m.type = "function"
       /\ s[m.index + 1] \in Upper
       /\ EndsWith(Trim(Substring(s, 0, m.index)), <<"n", "e", "w">>)
    THEN "className"
    ELSE m.type

Token(start, kind, text) == [start |-> start, kind |-> kind, text |-> text]

RECURSIVE Scan(_, _, _)
Scan(s, lastIndex, acc) ==
    LET m == Exec(s, lastIndex)
    IN  IF m = NoMatch
        THEN IF lastIndex < Len(s)
             THEN Append(acc, Token(lastIndex, "plain", SubstringFrom(s, lastIndex)))
             ELSE acc
        ELSE Scan(s, m.end,
                  Append(IF m.index > lastIndex
                         THEN Append(acc, Token(lastIndex, "plain",
                                                Substring(s, lastIndex, m.index)))
                         ELSE acc,
                         Token(m.index, ClassOf(s, m), Substring(s, m.index, m.end))))

\* a tokenizer that renders nothing for the text no rule matches
Tokenize_DropsUnmatched(s) ==
    SelectSeq(Scan(s, 0, <<>>), LAMBDA t : t.kind # "plain")

\* the elements SyntaxHighlightedText renders for a text
Tokenize(s) == Scan(s, 0, <<>>)

\* ------------------------------------------------------------------------
\* The lesson on display: one concept
\* ------------------------------------------------------------------------

\* annotation ids the model hands out; creation stops when they are used up
MaxIds == 2

\* the longest range the user drags over
MaxSelLen == 2

\* what the user may leave in the popover's textarea
Notes == {"", "n"}

ConceptId == "c1"

\* in document order
FieldNames == <<"definition", "notes", "codeExample">>

Fence == <<Backquote, Backquote, Backquote>>

\* the concepts a lesson is opened with: one with prose only, one whose
\* code example is a fenced block
Concepts ==
    {[definition |-> <<"a", " ", "b">>,
      notes |-> <<>>,
      codeExample |-> <<>>],
     [definition |-> <<>>,
      notes |-> <<>>,
      codeExample |-> Fence \o <<"\n", "f", "(", "\n">> \o Fence]}

\* parseCodeBlock: a block that is a fence, a language word, a newline, the
\* code and a closing fence at the very end; else a trimmed block between
\* two fences; else the block as it is
ParseCodeBlock(block) ==
    LET lang == RunEnd(block, 3, WordChars)
        trimmed == Trim(block)
    IN  IF /\ StartsWith(block, Fence)
           /\ lang < Len(block)
           /\ block[lang + 1] = "\n"
           /\ EndsWith(block, Fence)
           /\ Len(block) - 3 >= lang + 1
        THEN Trim(Substring(block, lang + 1, Len(block) - 3))
        ELSE IF StartsWith(trimmed, Fence) /\ EndsWith(trimmed, Fence)
        THEN Trim(Substring(trimmed, 3, Len(trimmed) - 3))
        ELSE block

\* the text a field's container shows when nothing is highlighted: a prose
\* field as it is, the code example after parseCodeBlock
FieldText(concept, fieldName) ==
    IF fieldName = "codeExample"
    THEN ParseCodeBlock(concept.codeExample)
    ELSE concept[fieldName]

\* the prose containers are always on the page, the CodeSnippet only for a
\* code example that is not blank
FieldRendered(concept, fieldName) ==
    fieldName = "codeExample" => Trim(concept.codeExample) # <<>>

NullAnnotation ==
    [id |-> 0, conceptId |-> "", fieldName |-> "", targetText |-> <<>>,
     note |-> "", startIndex |-> 0, endIndex |-> 0]

\* ------------------------------------------------------------------------
\* The merge of a field's text with its annotations
\* ------------------------------------------------------------------------

RECURSIVE Insert(_, _)
\* a into the sorted sequence s, after every element whose startIndex is not
\* greater: Array.prototype.sort is stable
Insert(s, a) ==
    IF s = <<>> THEN <<a>>
    ELSE IF a.startIndex < Head(s).startIndex THEN <<a>> \o s
    ELSE <<Head(s)>> \o Insert(Tail(s), a)

RECURSIVE SortByStart(_)
SortByStart(s) ==
    IF s = <<>> THEN <<>>
    ELSE Insert(SortByStart(SubSeq(s, 1, Len(s) - 1)), s[Len(s)])

\* a filter on the concept alone, left in list order
RelevantAnnotations_ConceptOnly(annotations, conceptId, fieldName) ==
    SelectSeq(annotations, LAMBDA a : a.conceptId = conceptId)

\* a filter on the field name alone
RelevantAnnotations_FieldOnly(annotations, conceptId, fieldName) ==
    SortByStart(SelectSeq(annotations, LAMBDA a : a.fieldName = fieldName))

\* annotations.filter(...).sort((a, b) => a.startIndex - b.startIndex)
RelevantAnnotations(annotations, conceptId, fieldName) ==
    LET keep(a) == a.conceptId = conceptId /\ a.fieldName = fieldName
    IN  SortByStart(SelectSeq(annotations, keep))

\* a part of the rendered container: a stretch of the field text (src is
\* its offset in the text) or a mark that shows an annotation's targetText
TextPart(text, src) ==
    [mark |-> FALSE, text |-> text, ann |-> NullAnnotation, src |-> src]

MarkPart(a) ==
    [mark |-> TRUE, text |-> a.targetText, ann |-> a, src |-> a.startIndex]

RECURSIVE MergeLoop(_, _, _, _)
\* relevantAnnotations.forEach(...) and the text that remains after it
MergeLoop(text, relevant, lastIndex, parts) ==
    IF relevant = <<>>
    THEN IF lastIndex < Len(text)
         THEN Append(parts, TextPart(SubstringFrom(text, lastIndex), lastIndex))
         ELSE parts
    ELSE LET a == Head(relevant)
         IN  MergeLoop(text, Tail(relevant), a.endIndex,
                 Append(IF a.startIndex > lastIndex
                        THEN Append(parts,
                                    TextPart(Substring(text, lastIndex, a.startIndex),
                                             lastIndex))
                        ELSE parts,
                        MarkPart(a)))

\* HighlightedContent: the parts of a prose field
HighlightedContent(text, conceptId, fieldName, annotations) ==
    LET relevant == RelevantAnnotations(annotations, conceptId, fieldName)
    IN  IF text = <<>> \/ relevant = <<>>
        THEN IF text = <<>> THEN <<>> ELSE <<TextPart(text, 0)>>
        ELSE MergeLoop(text, relevant, 0, <<>>)

\* renderContentWithHighlights: the parts of a code field
RenderContentWithHighlights(code, conceptId, fieldName, annotations) ==
    LET relevant == RelevantAnnotations(annotations, conceptId, fieldName)
    IN  IF relevant = <<>>
        THEN IF code = <<>> THEN <<>> ELSE <<TextPart(code, 0)>>
        ELSE MergeLoop(code, relevant, 0, <<>>)

\* the parts rendered for a field of the concept
Parts(concept, fieldName, annotations) ==
    IF ~FieldRendered(concept, fieldName) THEN <<>>
    ELSE IF fieldName = "codeExample"
    THEN RenderContentWithHighlights(FieldText(concept, fieldName), ConceptId,
                                     fieldName, annotations)
    ELSE HighlightedContent(FieldText(concept, fieldName), ConceptId,
                            fieldName, annotations)

\* the kind of the token that holds offset i of a tokenized text
KindAt(tokens, i) ==
    LET t == CHOOSE t \in 1..Len(tokens) :
                 /\ tokens[t].start <= i
                 /\ i < tokens[t].start + Len(tokens[t].text)
    IN  tokens[t].kind

\* the text nodes of the spans SyntaxHighlightedText renders for the text of
\* a part, character by character: each span holds the text of its token
SpanChars(part, tokens) ==
    Concat([t \in 1..Len(tokens) |->
               [k \in 1..Len(tokens[t].text) |->
                   [ch |-> tokens[t].text[k],
                    tag |-> "SPAN",
                    mark |-> part.ann.id,
                    kind |-> tokens[t].kind,
                    src |-> part.src + tokens[t].start + k - 1]]])

\* the text nodes of one part, character by character: the tag of the
\* node's parent element, the annotation of the enclosing mark (0: none),
\* the token kind and the offset of the field text the character is drawn
\* from.  A prose part is one text node under the pre or the mark element;
\* a code part is run through SyntaxHighlightedText, which wraps every
\* stretch in a span
PartChars(fieldName, part) ==
    IF fieldName = "codeExample"
    THEN SpanChars(part, Tokenize(part.text))
    ELSE [k \in 1..Len(part.text) |->
             [ch |-> part.text[k],
              tag |-> IF part.mark THEN "MARK" ELSE "PRE",
              mark |-> part.ann.id,
              kind |-> "plain",
              src |-> part.src + k - 1]]

\* the characters of a field's container in document order
Dom(concept, fieldName, annotations) ==
    LET parts == Parts(concept, fieldName, annotations)
    IN  Concat([i \in 1..Len(parts) |-> PartChars(fieldName, parts[i])])

\* Range.toString() over the container
DomText(dom) == [i \in 1..Len(dom) |-> dom[i].ch]

\* ------------------------------------------------------------------------
\* The CodeSnippet component of its own file
\* ------------------------------------------------------------------------

\* In JSX a text of blanks with no line break in it is a child like any
\* other text: the blank between an opening tag and a comment on the same
\* line is rendered.

\* the text of one span of that component's SyntaxHighlightedText: a span of
\* unmatched text opens with such a blank, a token's span does not
SnippetSpanText(token) ==
    IF token.kind = "plain" THEN <<" ">> \o token.text ELSE token.text

\* the text its SyntaxHighlightedText renders for a text
SnippetHighlightedText(text) ==
    LET tokens == Tokenize(text)
    IN  Concat([t \in 1..Len(tokens) |-> SnippetSpanText(tokens[t])])

\* the text of its pre element, the container of the selection: a blank,
\* then the code element with the parts of renderContentWithHighlights
SnippetContainerText(codeBlock, conceptId, annotations) ==
    LET parts == RenderContentWithHighlights(ParseCodeBlock(codeBlock),
                     conceptId, "codeExample", annotations)
    IN  <<" ">> \o Concat([i \in 1..Len(parts) |->
                              SnippetHighlightedText(parts[i].text)])

\* ------------------------------------------------------------------------
\* State
\* ------------------------------------------------------------------------

VARIABLES
    concept,     \* the concept of the lesson on display
    lesson,      \* the lesson prop of LessonView: topic and annotations
    popover,     \* the popover state of LessonView: NoPopover or {data, isNew}
    nextId,      \* the next value of crypto.randomUUID()
    last,        \* the event handled last: the selection it found, whether a
                 \* popover was open, whether it cleared the selection
    tokText,     \* text handed to the tokenizer
    tokOut,      \* the elements the tokenizer rendered for tokText
    tokDone,     \* whether tokOut has been computed
    scanIndex,   \* the lastIndex of the tokenizer's scan loop
    folders,     \* the folders state of App
    currentView, \* App: "new-lesson" or "lesson-view"
    selectedLessonId,  \* App: the lesson selected (0: null)
    selectedFolderId,  \* App: the folder it was selected in ("": null)
    pending,     \* the calls of handleSubmit that await generateLesson, each
                 \* with the folders its onLessonCreated closes over
    nextLessonId \* the next value of crypto.randomUUID() for a lesson

vars ==
    <<concept, lesson, popover, nextId, last, tokText, tokOut, tokDone,
      scanIndex, folders, currentView, selectedLessonId, selectedFolderId,
      pending, nextLessonId>>

tokVars == <<tokText, tokOut, tokDone, scanIndex>>

\* the state of App that no handler of the lesson view writes
navVars ==
    <<currentView, selectedLessonId, selectedFolderId, pending, nextLessonId>>

NoPopover == [data |-> NullAnnotation, isNew |-> FALSE, open |-> FALSE]

Popover(a, isNew) == [data |-> a, isNew |-> isNew, open |-> TRUE]

\* ------------------------------------------------------------------------
\* The selection a mouse-up finds
\* ------------------------------------------------------------------------

\* a range: its offsets in the container's text, for each endpoint the tag
\* of the parent element of its text node and whether that node lies in a
\* mark, whether its text is blank, and the offset in the field text of the
\* first character it covers (-1 when it covers none of the container)
Sel(kind, start, end, startNode, endNode, blank, src) ==
    [kind |-> kind, start |-> start, end |-> end,
     startTag |-> startNode.tag, startMark |-> startNode.mark,
     endTag |-> endNode.tag, endMark |-> endNode.mark, blank |-> blank,
     src |-> src]

Node(tag, mark) == [tag |-> tag, mark |-> mark]

\* nothing selected, or a collapsed range: toString() is empty
NoSelection == Sel("none", 0, 0, Node("", FALSE), Node("", FALSE), TRUE, -1)

\* a range the handler never looks at
UnreadSelection ==
    Sel("unread", 0, 0, Node("", FALSE), Node("", FALSE), FALSE, -1)

\* the text nodes of a container
Nodes(dom) == {Node(dom[i].tag, dom[i].mark # 0) : i \in 1..Len(dom)}

\* the text nodes an endpoint at offset p of the container may lie in: the
\* one that ends there or the one that starts there
EndpointNodes(dom, p) ==
    {Node(dom[i].tag, dom[i].mark # 0) : i \in {p, p + 1} \cap (1..Len(dom))}

\* the ranges that lie inside the container
InsideSelections(dom) ==
    UNION {UNION {{Sel("inside", p, q, a, b,
                       Trim(SubSeq(DomText(dom), p + 1, q)) = <<>>,
                       dom[p + 1].src) :
                      <<a, b>> \in EndpointNodes(dom, p) \X EndpointNodes(dom, q)} :
                  q \in (p + 1)..Min(p + MaxSelLen, Len(dom))} :
           p \in 0..(Len(dom) - 1)}

\* the ranges with one endpoint in the container and the other elsewhere on
\* the page
OutsideSelections(dom, elsewhere) ==
    {Sel("outside", 0, 0, a, b, w, -1) :
        <<a, b, w>> \in elsewhere \X (Nodes(dom) \cup {Node("DIV", FALSE)})
                                  \X BOOLEAN}

\* the text nodes of the page outside a field's container: a heading, and
\* the text of the other fields
Elsewhere(c, fieldName, annotations) ==
    {Node("H4", FALSE)}
    \cup UNION {Nodes(Dom(c, FieldNames[i], annotations)) :
                   i \in {j \in 1..Len(FieldNames) : FieldNames[j] # fieldName}}

NoOffsets == [startIndex |-> -1, endIndex |-> -1]

\* offsets computed without asking whether the element contains the range
GetSelectionOffsets_NoContainment(dom, sel) ==
    LET startIndex == Len(SubSeq(DomText(dom), 1, sel.start))
    IN  [startIndex |-> startIndex,
         endIndex |-> startIndex
                      + Len(SubSeq(DomText(dom), sel.start + 1, sel.end))]

\* getSelectionOffsets: null unless the range lies in the element; else the
\* length of the container's text before the range and that plus the length
\* of the range's text
GetSelectionOffsets(dom, sel) ==
    IF sel.kind # "inside" THEN NoOffsets
    ELSE LET startIndex == Len(SubSeq(DomText(dom), 1, sel.start))
         IN  [startIndex |-> startIndex,
              endIndex |-> startIndex
                           + Len(SubSeq(DomText(dom), sel.start + 1, sel.end))]

\* selection.toString() of a range inside the container
SelectionText(dom, sel) == SubSeq(DomText(dom), sel.start + 1, sel.end)

\* what is kept of the event handled last: the handler, the selection it
\* found, whether a popover was open, on which annotation (0: none) and
\* whether as new, whether the handler cleared the selection, the annotation
\* the handler was called with (0: none), and, for as long as the popover a
\* selection opened stays open and for the event that closes it, the list
\* the lesson held before that selection
Event(op, fieldName, sel, wasOpen, removed) ==
    [op |-> op, field |-> fieldName, sel |-> sel, wasOpen |-> wasOpen,
     wasOn |-> IF popover.open THEN popover.data.id ELSE 0,
     wasNew |-> popover.open /\ popover.isNew,
     before |-> IF popover.open /\ popover.isNew THEN last.before ELSE <<>>,
     removed |-> removed, on |-> 0]

\* ------------------------------------------------------------------------
\* Handlers
\* ------------------------------------------------------------------------

\* what getSelectedLesson returns for null
NoLesson == [id |-> 0, topic |-> "", annotations |-> <<>>]

\* the first element of a sequence with the given id:
\* Array.prototype.find(x => x.id === id)
FindById(s, id, none) ==
    IF \E i \in 1..Len(s) : s[i].id = id
    THEN s[CHOOSE i \in 1..Len(s) :
               s[i].id = id /\ \A j \in 1..(i - 1) : s[j].id # id]
    ELSE none

NoFolder == [id |-> "", name |-> "", lessons |-> <<>>]

\* getSelectedLesson
GetSelectedLesson(fs, folderId, lessonId) ==
    IF folderId = "" \/ lessonId = 0 THEN NoLesson
    ELSE FindById(FindById(fs, folderId, NoFolder).lessons,
                  lessonId, NoLesson)

\* folders.map(folder => ({...folder, lessons: folder.lessons.map(...)}))
ReplaceLesson(fs, updatedLesson) ==
    [f \in 1..Len(fs) |->
        [fs[f] EXCEPT !.lessons =
            [l \in 1..Len(fs[f].lessons) |->
                IF fs[f].lessons[l].id = updatedLesson.id
                THEN updatedLesson
                ELSE fs[f].lessons[l]]]]

\* onUpdateLesson: App.handleUpdateLesson, and the lesson prop App hands to
\* the lesson view in the render that follows
HandleUpdateLesson(updatedLesson) ==
    /\ folders' = ReplaceLesson(folders, updatedLesson)
    /\ lesson' = GetSelectedLesson(folders', selectedFolderId, selectedLessonId)

\* the id of the lesson a session finds in localStorage
RestoredLessonId == 100

\* App as it shows the one lesson l of the folder restored from
\* localStorage
LessonOpen(l) ==
    /\ lesson = l
    /\ folders = <<[id |-> "default", name |-> "My Lessons", lessons |-> <<l>>]>>
    /\ currentView = "lesson-view"
    /\ selectedLessonId = l.id
    /\ selectedFolderId = "default"
    /\ pending = <<>>
    /\ nextLessonId = 1

\* the checks of handleMouseUp on the selection when no popover is open
MouseUpOutcome(dom, sel) ==
    IF sel.kind = "none" \/ sel.blank THEN "ignored"
    ELSE IF sel.startTag = "MARK" \/ sel.endTag = "MARK" THEN "rejected"
    ELSE IF GetSelectionOffsets(dom, sel) = NoOffsets THEN "no offsets"
    ELSE "created"

\* a mouse-up whose new popover the handler of main closes again
HandleMouseUp_MainCloses(fieldName, dom, sel) ==
    LET offsets == GetSelectionOffsets(dom, sel)
        outcome == MouseUpOutcome(dom, sel)
        newAnnotation ==
            [id |-> nextId, conceptId |-> ConceptId, fieldName |-> fieldName,
             targetText |-> SelectionText(dom, sel), note |-> "",
             startIndex |-> offsets.startIndex, endIndex |-> offsets.endIndex]
    IN  CASE outcome = "created" ->
               /\ nextId <= MaxIds
               /\ HandleUpdateLesson(
                      [lesson EXCEPT !.annotations =
                          Append(lesson.annotations, newAnnotation)])
               /\ popover' = NoPopover
               /\ nextId' = nextId + 1
          [] OTHER ->
               UNCHANGED <<lesson, folders, popover, nextId>>

\* handleMouseUp(conceptId, fieldName) with no popover open
HandleMouseUp(fieldName, dom, sel) ==
    LET offsets == GetSelectionOffsets(dom, sel)
        outcome == MouseUpOutcome(dom, sel)
        newAnnotation ==
            [id |-> nextId, conceptId |-> ConceptId, fieldName |-> fieldName,
             targetText |-> SelectionText(dom, sel), note |-> "",
             startIndex |-> offsets.startIndex, endIndex |-> offsets.endIndex]
    IN  CASE outcome = "created" ->
               /\ nextId <= MaxIds
               /\ HandleUpdateLesson(
                      [lesson EXCEPT !.annotations =
                          Append(lesson.annotations, newAnnotation)])
               /\ popover' = Popover(newAnnotation, TRUE)
               /\ nextId' = nextId + 1
          [] OTHER ->
               UNCHANGED <<lesson, folders, popover, nextId>>

\* whether handleMouseUp calls selection.removeAllRanges()
RemovesAllRanges(dom, sel) == MouseUpOutcome(dom, sel) \in {"created", "rejected"}

\* a mouse-up that reads the selection whether or not a popover is open
MouseUpField_IgnoresPopover(fieldName) ==
    /\ FieldRendered(concept, fieldName)
    /\ UNCHANGED <<concept, tokVars, navVars>>
    /\ \E dom \in {Dom(concept, fieldName, lesson.annotations)} :
           \E sel \in {NoSelection} \cup InsideSelections(dom) :
               /\ last' = [Event("mouseUp", fieldName, sel, popover.open,
                                  RemovesAllRanges(dom, sel))
                               EXCEPT !.before = lesson.annotations]
               /\ HandleMouseUp(fieldName, dom, sel)

\* a mouse-up in a field's container: handleMouseUp, then the onMouseUp of
\* the enclosing main element, which sees the popover of the same render.
\* With a popover open handleMouseUp closes it and returns before it reads
\* the selection
MouseUpField(fieldName) ==
    /\ FieldRendered(concept, fieldName)
    /\ UNCHANGED <<concept, tokVars, navVars>>
    /\ IF popover.open
       THEN \E sel \in {NoSelection, UnreadSelection} :
                /\ last' = Event("mouseUp", fieldName, sel, TRUE, FALSE)
                /\ popover' = NoPopover
                /\ UNCHANGED <<lesson, folders, nextId>>
       ELSE \E dom \in {Dom(concept, fieldName, lesson.annotations)} :
                \E sel \in {NoSelection}
                           \cup InsideSelections(dom)
                           \cup OutsideSelections(dom,
                                    Elsewhere(concept, fieldName,
                                              lesson.annotations)) :
                    /\ last' = [Event("mouseUp", fieldName, sel, FALSE,
                                       RemovesAllRanges(dom, sel))
                                    EXCEPT !.before = lesson.annotations]
                    /\ HandleMouseUp(fieldName, dom, sel)

\* a mouse-up in the main element outside every field: only main's handler
MouseUpMain(empty) ==
    /\ last' = Event("mouseUpMain", "",
                     IF empty THEN NoSelection ELSE UnreadSelection,
                     popover.open, FALSE)
    /\ popover' = IF empty /\ popover.open THEN NoPopover ELSE popover
    /\ UNCHANGED <<concept, lesson, folders, nextId, tokVars, navVars>>

\* a listener that closes the popover on every mouse-down
MouseDown_ClosesAlways(insidePopover) ==
    /\ popover.open
    /\ last' = Event(IF insidePopover THEN "mouseDownInside" ELSE "mouseDownOutside",
                     "", NoSelection, TRUE, FALSE)
    /\ popover' = NoPopover
    /\ UNCHANGED <<concept, lesson, folders, nextId, tokVars, navVars>>

\* handleClickOutside of the open popover, on a mouse-down anywhere
MouseDown(insidePopover) ==
    /\ popover.open
    /\ last' = Event(IF insidePopover THEN "mouseDownInside" ELSE "mouseDownOutside",
                     "", NoSelection, TRUE, FALSE)
    /\ popover' = IF insidePopover THEN popover ELSE NoPopover
    /\ UNCHANGED <<concept, lesson, folders, nextId, tokVars, navVars>>

\* the marks on the page, each with the annotation its onClick closes over
RenderedMarks ==
    UNION {{Parts(concept, FieldNames[f], lesson.annotations)[i].ann :
               i \in {j \in 1..Len(Parts(concept, FieldNames[f], lesson.annotations)) :
                         Parts(concept, FieldNames[f], lesson.annotations)[j].mark}} :
           f \in 1..Len(FieldNames)}

\* a click that leaves an open popover on the annotation it shows
HandleHighlightClick_KeepsOpen(annotation) ==
    /\ last' = [Event("highlightClick", annotation.fieldName, NoSelection,
                      popover.open, FALSE) EXCEPT !.on = annotation.id]
    /\ popover' = IF popover.open THEN popover ELSE Popover(annotation, FALSE)
    /\ UNCHANGED <<concept, lesson, folders, nextId, tokVars, navVars>>

\* a click that opens the popover with an empty note
HandleHighlightClick_BlankNote(annotation) ==
    /\ last' = [Event("highlightClick", annotation.fieldName, NoSelection,
                      popover.open, FALSE) EXCEPT !.on = annotation.id]
    /\ popover' = Popover([annotation EXCEPT !.note = ""], FALSE)
    /\ UNCHANGED <<concept, lesson, folders, nextId, tokVars, navVars>>

\* handleHighlightClick
HandleHighlightClick(annotation) ==
    /\ last' = [Event("highlightClick", annotation.fieldName, NoSelection,
                      popover.open, FALSE) EXCEPT !.on = annotation.id]
    /\ popover' = Popover(annotation, FALSE)
    /\ UNCHANGED <<concept, lesson, folders, nextId, tokVars, navVars>>

\* a save that writes the note into every annotation of the list
HandleSaveAnnotation_EveryEntry(note) ==
    /\ popover.open
    /\ last' = Event("save", "", NoSelection, TRUE, FALSE)
    /\ HandleUpdateLesson(
           [lesson EXCEPT !.annotations =
               [i \in 1..Len(lesson.annotations) |->
                   [lesson.annotations[i] EXCEPT !.note = note]]])
    /\ popover' = NoPopover
    /\ UNCHANGED <<concept, nextId, tokVars, navVars>>

\* handleSaveAnnotation
HandleSaveAnnotation(note) ==
    /\ popover.open
    /\ last' = Event("save", "", NoSelection, TRUE, FALSE)
    /\ HandleUpdateLesson(
           [lesson EXCEPT !.annotations =
               [i \in 1..Len(lesson.annotations) |->
                   IF lesson.annotations[i].id = popover.data.id
                   THEN [lesson.annotations[i] EXCEPT !.note = note]
                   ELSE lesson.annotations[i]]])
    /\ popover' = NoPopover
    /\ UNCHANGED <<concept, nextId, tokVars, navVars>>

\* a delete that cuts the list off at the annotation of the popover
HandleDeleteAnnotation_CutsTail ==
    /\ popover.open
    /\ last' = Event("delete", "", NoSelection, TRUE, FALSE)
    /\ HandleUpdateLesson(
           [lesson EXCEPT !.annotations =
               SubSeq(lesson.annotations, 1,
                      (CHOOSE i \in 1..Len(lesson.annotations) :
                           lesson.annotations[i].id = popover.data.id) - 1)])
    /\ popover' = NoPopover
    /\ UNCHANGED <<concept, nextId, tokVars, navVars>>

\* a delete that leaves the list as it is
HandleDeleteAnnotation_KeepsList ==
    /\ popover.open
    /\ last' = Event("delete", "", NoSelection, TRUE, FALSE)
    /\ HandleUpdateLesson(lesson)
    /\ popover' = NoPopover
    /\ UNCHANGED <<concept, nextId, tokVars, navVars>>

\* handleDeleteAnnotation
HandleDeleteAnnotation ==
    /\ popover.open
    /\ last' = Event("delete", "", NoSelection, TRUE, FALSE)
    /\ HandleUpdateLesson(
           [lesson EXCEPT !.annotations =
               SelectSeq(lesson.annotations,
                         LAMBDA a : a.id # popover.data.id)])
    /\ popover' = NoPopover
    /\ UNCHANGED <<concept, nextId, tokVars, navVars>>

\* a Cancel that takes back the annotation a selection has just made
ClosePopover_DropsNew ==
    /\ popover.open
    /\ last' = Event("close", "", NoSelection, TRUE, FALSE)
    /\ HandleUpdateLesson(
           [lesson EXCEPT !.annotations =
               IF popover.isNew
               THEN SelectSeq(lesson.annotations,
                              LAMBDA a : a.id # popover.data.id)
               ELSE lesson.annotations])
    /\ popover' = NoPopover
    /\ UNCHANGED <<concept, nextId, tokVars, navVars>>

\* onClose of the popover (Cancel)
ClosePopover ==
    /\ popover.open
    /\ last' = Event("close", "", NoSelection, TRUE, FALSE)
    /\ popover' = NoPopover
    /\ UNCHANGED <<concept, lesson, folders, nextId, tokVars, navVars>>

\* the NotePopover elements LessonView renders, each with the annotation
\* it shows
NotePopovers == IF popover.open THEN <<popover.data>> ELSE <<>>

\* the text in the textarea when NotePopover mounts: useState(annotation.note)
NoteText == popover.data.note

\* ------------------------------------------------------------------------
\* The lesson view
\* ------------------------------------------------------------------------

Init ==
    /\ concept \in Concepts
    /\ LessonOpen([id |-> RestoredLessonId, topic |-> "t",
                   annotations |-> <<>>])
    /\ popover = NoPopover
    /\ nextId = 1
    /\ last = Event("init", "", NoSelection, FALSE, FALSE)
    /\ tokText = <<>>
    /\ tokOut = <<>>
    /\ tokDone = FALSE
    /\ scanIndex = 0

Next ==
    \/ \E i \in 1..Len(FieldNames) : MouseUpField(FieldNames[i])
    \/ \E empty \in BOOLEAN : MouseUpMain(empty)
    \/ \E inside \in BOOLEAN : MouseDown(inside)
    \/ \E a \in RenderedMarks : HandleHighlightClick(a)
    \/ \E note \in Notes : HandleSaveAnnotation(note)
    \/ HandleDeleteAnnotation
    \/ ClosePopover

Spec == Init /\ [][Next]_vars

\* ------------------------------------------------------------------------
\* A lesson restored from localStorage
\* ------------------------------------------------------------------------

SavedConcept ==
    [definition |-> <<"a", "b", "c", " ", "d">>,
     notes |-> <<>>,
     codeExample |-> <<>>]

\* the annotations an earlier session left in the definition: "b", and then
\* "abc" dragged from the text before that mark to the text after it
SavedAnnotations ==
    <<[id |-> 101, conceptId |-> ConceptId, fieldName |-> "definition",
       targetText |-> <<"b">>, note |-> "", startIndex |-> 1, endIndex |-> 2],
      [id |-> 102, conceptId |-> ConceptId, fieldName |-> "definition",
       targetText |-> <<"a", "b", "c">>, note |-> "", startIndex |-> 0,
       endIndex |-> 3]>>

InitSaved ==
    /\ concept = SavedConcept
    /\ LessonOpen([id |-> RestoredLessonId, topic |-> "t",
                   annotations |-> SavedAnnotations])
    /\ popover = NoPopover
    /\ nextId = 1
    /\ last = Event("init", "", NoSelection, FALSE, FALSE)
    /\ tokText = <<>>
    /\ tokOut = <<>>
    /\ tokDone = FALSE
    /\ scanIndex = 0

SpecSaved == InitSaved /\ [][Next]_vars

\* ------------------------------------------------------------------------
\* A restored lesson and a random id that is already taken
\* ------------------------------------------------------------------------

\* crypto.randomUUID() is a random draw, and handleMouseUp takes what it
\* returns: here the next draw is the id of the annotation the lesson holds
InitTakenId ==
    /\ concept = SavedConcept
    /\ LessonOpen([id |-> RestoredLessonId, topic |-> "t",
                   annotations |-> <<[SavedAnnotations[1] EXCEPT !.id = 1]>>])
    /\ popover = NoPopover
    /\ nextId = 1
    /\ last = Event("init", "", NoSelection, FALSE, FALSE)
    /\ tokText = <<>>
    /\ tokOut = <<>>
    /\ tokDone = FALSE
    /\ scanIndex = 0

SpecTakenId == InitTakenId /\ [][Next]_vars

\* ------------------------------------------------------------------------
\* A restored lesson with annotations of several concepts and fields
\* ------------------------------------------------------------------------

\* the id of a second concept of the lesson, further down the page
OtherConceptId == "c2"

StoredConcept ==
    [definition |-> <<"a", "b", "c">>,
     notes |-> <<>>,
     codeExample |-> <<>>]

\* the list of the lesson holds the annotations of all its concepts and
\* fields in the order they were made
StoredAnnotations ==
    <<[id |-> 101, conceptId |-> ConceptId, fieldName |-> "definition",
       targetText |-> <<"b">>, note |-> "", startIndex |-> 1, endIndex |-> 2],
      [id |-> 103, conceptId |-> OtherConceptId, fieldName |-> "definition",
       targetText |-> <<"x">>, note |-> "n", startIndex |-> 0, endIndex |-> 1],
      [id |-> 104, conceptId |-> OtherConceptId, fieldName |-> "notes",
       targetText |-> <<"y">>, note |-> "", startIndex |-> 0, endIndex |-> 1],
      [id |-> 102, conceptId |-> ConceptId, fieldName |-> "definition",
       targetText |-> <<"a">>, note |-> "", startIndex |-> 0, endIndex |-> 1]>>

InitStored ==
    /\ concept = StoredConcept
    /\ LessonOpen([id |-> RestoredLessonId, topic |-> "t",
                   annotations |-> StoredAnnotations])
    /\ popover = NoPopover
    /\ nextId = 1
    /\ last = Event("init", "", NoSelection, FALSE, FALSE)
    /\ tokText = <<>>
    /\ tokOut = <<>>
    /\ tokDone = FALSE
    /\ scanIndex = 0

SpecStored == InitStored /\ [][Next]_vars

\* ------------------------------------------------------------------------
\* App: folders, navigation and lesson generation
\* ------------------------------------------------------------------------

\* lessons one session generates
MaxLessons == 2

\* folders one session ends up with
MaxFolders == 2

\* the ids crypto.randomUUID() returns for the folders added
FolderIds == <<"f1", "f2", "f3">>

\* what the user types as the name of a new folder, and the name the user
\* gives the first folder
NewFolderName == "n"

RenamedFolderName == "r"

\* what the user may leave in the title input of a lesson with topic "t"
Titles == {"", "u"}

\* the concept generateLesson returns
GeneratedConcept ==
    [definition |-> <<"a">>,
     notes |-> <<>>,
     codeExample |-> <<>>]

\* the lesson view is mounted: App renders it for a selected lesson that
\* getSelectedLesson finds
LessonViewShown == currentView = "lesson-view" /\ lesson # NoLesson

\* a NewLessonForm that unmounts no longer shows its isLoading
Detach(p) == [i \in 1..Len(p) |-> [p[i] EXCEPT !.attached = FALSE]]

Remove(p, i) == SubSeq(p, 1, i - 1) \o SubSeq(p, i + 1, Len(p))

\* handleNewLesson, from the sidebar
HandleNewLesson ==
    /\ last' = Event("newLesson", "", NoSelection, popover.open, FALSE)
    /\ currentView' = "new-lesson"
    /\ selectedLessonId' = 0
    /\ selectedFolderId' = ""
    /\ lesson' = NoLesson
    /\ popover' = NoPopover
    /\ UNCHANGED <<concept, folders, nextId, pending, nextLessonId, tokVars>>

\* handleSelectLesson, from a lesson of the sidebar; the mouse-down of the
\* click is outside an open popover and closes it
HandleSelectLesson(folderId, lessonId) ==
    /\ \E f \in 1..Len(folders) :
           /\ folders[f].id = folderId
           /\ \E l \in 1..Len(folders[f].lessons) :
                  folders[f].lessons[l].id = lessonId
    /\ last' = Event("selectLesson", "", NoSelection, popover.open, FALSE)
    /\ selectedFolderId' = folderId
    /\ selectedLessonId' = lessonId
    /\ currentView' = "lesson-view"
    /\ lesson' = GetSelectedLesson(folders, folderId, lessonId)
    /\ popover' = NoPopover
    /\ pending' = Detach(pending)
    /\ UNCHANGED <<concept, folders, nextId, nextLessonId, tokVars>>

\* handleSubmit up to its await, with a topic, a file and the folder chosen
\* in the form: the call keeps the onLessonCreated of the render it was
\* made in, which closes over the folders of that render
HandleSubmit(folderId) ==
    /\ currentView = "new-lesson"
    /\ \A i \in 1..Len(pending) : ~pending[i].attached
    /\ nextLessonId + Len(pending) <= MaxLessons
    /\ \E f \in 1..Len(folders) : folders[f].id = folderId
    /\ last' = Event("submit", "", NoSelection, popover.open, FALSE)
    /\ pending' = Append(pending, [folders |-> folders, folderId |-> folderId,
                                   attached |-> TRUE])
    /\ UNCHANGED <<concept, lesson, folders, popover, nextId, currentView,
                   selectedLessonId, selectedFolderId, nextLessonId, tokVars>>

\* the folder handleLessonCreated puts the lesson in: the one asked for if
\* its folders hold it, else the first, else none
TargetFolderId(fs, folderId) ==
    IF \E f \in 1..Len(fs) : fs[f].id = folderId THEN folderId
    ELSE IF fs # <<>> THEN fs[1].id
    ELSE ""

\* handleLessonCreated as the render with folders fs defined it
HandleLessonCreated(fs, newLesson, folderId) ==
    LET targetFolderId == TargetFolderId(fs, folderId)
    IN  IF targetFolderId = ""
        THEN /\ folders' = <<[id |-> "default", name |-> "My Lessons",
                              lessons |-> <<newLesson>>]>>
             /\ selectedFolderId' = "default"
             /\ selectedLessonId' = newLesson.id
             /\ currentView' = "lesson-view"
        ELSE /\ folders' = [f \in 1..Len(fs) |->
                               IF fs[f].id = targetFolderId
                               THEN [fs[f] EXCEPT !.lessons =
                                        Append(fs[f].lessons, newLesson)]
                               ELSE fs[f]]
             /\ selectedFolderId' = targetFolderId
             /\ selectedLessonId' = newLesson.id
             /\ currentView' = "lesson-view"

\* generateLesson resolves for the i-th call that awaits it: handleSubmit
\* goes on with the lesson and the onLessonCreated it holds.  A lesson view
\* that is mounted stays mounted, with its popover state
GenerationResolves(i) ==
    LET newLesson == [id |-> nextLessonId, topic |-> "t", annotations |-> <<>>]
    IN  /\ last' = Event("lessonCreated", "", NoSelection, popover.open, FALSE)
        /\ HandleLessonCreated(pending[i].folders, newLesson,
                               pending[i].folderId)
        /\ lesson' = GetSelectedLesson(folders', selectedFolderId',
                                       selectedLessonId')
        /\ popover' = IF LessonViewShown THEN popover ELSE NoPopover
        /\ pending' = Detach(Remove(pending, i))
        /\ nextLessonId' = nextLessonId + 1
        /\ UNCHANGED <<concept, nextId, tokVars>>

\* generateLesson rejects: handleSubmit sets the form's error
GenerationRejects(i) ==
    /\ last' = Event("generationFailed", "", NoSelection, popover.open, FALSE)
    /\ pending' = Remove(pending, i)
    /\ UNCHANGED <<concept, lesson, folders, popover, nextId, currentView,
                   selectedLessonId, selectedFolderId, nextLessonId, tokVars>>

\* handleAddFolder, from the sidebar
HandleAddFolder(name) ==
    /\ Len(folders) < MaxFolders
    /\ last' = Event("addFolder", "", NoSelection, popover.open, FALSE)
    /\ folders' = Append(folders, [id |-> FolderIds[Len(folders)],
                                   name |-> name, lessons |-> <<>>])
    /\ popover' = NoPopover
    /\ UNCHANGED <<concept, lesson, nextId, navVars, tokVars>>

\* handleRenameFolder, from the sidebar
HandleRenameFolder(folderId, newName) ==
    /\ last' = Event("renameFolder", "", NoSelection, popover.open, FALSE)
    /\ folders' = [f \in 1..Len(folders) |->
                      IF folders[f].id = folderId
                      THEN [folders[f] EXCEPT !.name = newName]
                      ELSE folders[f]]
    /\ popover' = NoPopover
    /\ UNCHANGED <<concept, lesson, nextId, navVars, tokVars>>

\* folders.map(...) of handleMoveLesson that takes the lesson out of its
\* source folder
FoldersWithoutLesson(fs, lessonId, sourceFolderId) ==
    [f \in 1..Len(fs) |->
        IF fs[f].id = sourceFolderId
        THEN [fs[f] EXCEPT !.lessons =
                 SelectSeq(fs[f].lessons, LAMBDA l : l.id # lessonId)]
        ELSE fs[f]]

\* the lessonToMove of handleMoveLesson: what find returned in the last
\* folder with the source id
LessonToMove(fs, lessonId, sourceFolderId) ==
    LET sources == {f \in 1..Len(fs) : fs[f].id = sourceFolderId}
    IN  IF sources = {} THEN NoLesson
        ELSE FindById(fs[CHOOSE f \in sources : \A g \in sources : g <= f].lessons,
                      lessonId, NoLesson)

\* handleMoveLesson, from a lesson of the sidebar dropped on a folder
HandleMoveLesson(lessonId, sourceFolderId, destinationFolderId) ==
    LET lessonToMove == LessonToMove(folders, lessonId, sourceFolderId)
        foldersWithoutLesson ==
            FoldersWithoutLesson(folders, lessonId, sourceFolderId)
    IN  /\ last' = Event("moveLesson", "", NoSelection, popover.open, FALSE)
        /\ folders' =
               IF sourceFolderId = destinationFolderId \/ lessonToMove = NoLesson
               THEN folders
               ELSE [f \in 1..Len(foldersWithoutLesson) |->
                        IF foldersWithoutLesson[f].id = destinationFolderId
                        THEN [foldersWithoutLesson[f] EXCEPT !.lessons =
                                 Append(foldersWithoutLesson[f].lessons,
                                        lessonToMove)]
                        ELSE foldersWithoutLesson[f]]
        /\ lesson' = GetSelectedLesson(folders', selectedFolderId,
                                       selectedLessonId)
        /\ popover' = NoPopover
        /\ UNCHANGED <<concept, nextId, navVars, tokVars>>

\* handleTitleSave of the lesson view, on Enter or blur of the title input
HandleTitleSave(title) ==
    /\ last' = Event("titleSave", "", NoSelection, popover.open, FALSE)
    /\ IF title # "" /\ title # lesson.topic
       THEN HandleUpdateLesson([lesson EXCEPT !.topic = title])
       ELSE UNCHANGED <<lesson, folders>>
    /\ popover' = NoPopover
    /\ UNCHANGED <<concept, nextId, navVars, tokVars>>

\* App as it starts with nothing in localStorage
InitApp ==
    /\ concept = GeneratedConcept
    /\ lesson = NoLesson
    /\ folders = <<[id |-> "default", name |-> "My Lessons",
                    lessons |-> <<>>]>>
    /\ currentView = "new-lesson"
    /\ selectedLessonId = 0
    /\ selectedFolderId = ""
    /\ pending = <<>>
    /\ nextLessonId = 1
    /\ popover = NoPopover
    /\ nextId = 1
    /\ last = Event("init", "", NoSelection, FALSE, FALSE)
    /\ tokText = <<>>
    /\ tokOut = <<>>
    /\ tokDone = FALSE
    /\ scanIndex = 0

NextApp ==
    \/ LessonViewShown /\ \E i \in 1..Len(FieldNames) : MouseUpField(FieldNames[i])
    \/ LessonViewShown /\ \E empty \in BOOLEAN : MouseUpMain(empty)
    \/ LessonViewShown /\ \E inside \in BOOLEAN : MouseDown(inside)
    \/ LessonViewShown /\ \E a \in RenderedMarks : HandleHighlightClick(a)
    \/ LessonViewShown /\ \E note \in Notes : HandleSaveAnnotation(note)
    \/ LessonViewShown /\ HandleDeleteAnnotation
    \/ LessonViewShown /\ ClosePopover
    \/ LessonViewShown /\ \E title \in Titles : HandleTitleSave(title)
    \/ HandleNewLesson
    \/ \E f \in 1..Len(folders) :
           \E l \in 1..Len(folders[f].lessons) :
               HandleSelectLesson(folders[f].id, folders[f].lessons[l].id)
    \/ \E f \in 1..Len(folders) : HandleSubmit(folders[f].id)
    \/ \E i \in 1..Len(pending) : GenerationResolves(i)
    \/ \E i \in 1..Len(pending) : GenerationRejects(i)
    \/ HandleAddFolder(NewFolderName)
    \/ HandleRenameFolder(folders[1].id, RenamedFolderName)
    \/ \E f \in 1..Len(folders) :
           \E l \in 1..Len(folders[f].lessons) :
               \E g \in 1..Len(folders) :
                   HandleMoveLesson(folders[f].lessons[l].id, folders[f].id,
                                    folders[g].id)

SpecApp == InitApp /\ [][NextApp]_vars

\* ------------------------------------------------------------------------
\* App: the sidebar and the form, with a lesson restored from localStorage
\* ------------------------------------------------------------------------

InitFolders ==
    /\ concept = GeneratedConcept
    /\ lesson = NoLesson
    /\ folders = <<[id |-> "default", name |-> "My Lessons",
                    lessons |-> <<[id |-> RestoredLessonId, topic |-> "t",
                                   annotations |-> <<>>]>>]>>
    /\ currentView = "new-lesson"
    /\ selectedLessonId = 0
    /\ selectedFolderId = ""
    /\ pending = <<>>
    /\ nextLessonId = 1
    /\ popover = NoPopover
    /\ nextId = 1
    /\ last = Event("init", "", NoSelection, FALSE, FALSE)
    /\ tokText = <<>>
    /\ tokOut = <<>>
    /\ tokDone = FALSE
    /\ scanIndex = 0

\* the user goes about the sidebar and the form and leaves the lesson shown
\* as it is
NextFolders ==
    \/ HandleNewLesson
    \/ \E f \in 1..Len(folders) :
           \E l \in 1..Len(folders[f].lessons) :
               HandleSelectLesson(folders[f].id, folders[f].lessons[l].id)
    \/ \E f \in 1..Len(folders) : HandleSubmit(folders[f].id)
    \/ \E i \in 1..Len(pending) : GenerationResolves(i)
    \/ \E i \in 1..Len(pending) : GenerationRejects(i)
    \/ HandleAddFolder(NewFolderName)
    \/ \E f \in 1..Len(folders) :
           HandleRenameFolder(folders[f].id, RenamedFolderName)
    \/ \E f \in 1..Len(folders) :
           \E l \in 1..Len(folders[f].lessons) :
               \E g \in 1..Len(folders) :
                   HandleMoveLesson(folders[f].lessons[l].id, folders[f].id,
                                    folders[g].id)

SpecFolders == InitFolders /\ [][NextFolders]_vars

\* ------------------------------------------------------------------------
\* The tokenizer on its own
\* ------------------------------------------------------------------------

\* the longest input, in fragments
MaxFrags == 4

\* the fragments inputs are put together from
Lexicon ==
    <<<<"n", "e", "w">>, <<" ">>, <<"F", "(">>, <<"(">>, <<"x">>, <<"\"">>,
      <<"1">>, <<".">>, <<"/">>, <<"*">>, <<"\n">>>>

\* a text put together from the fragments the function f picks
TokInput(f) == Concat([i \in 1..Len(f) |-> Lexicon[f[i]]])

InitTok ==
    /\ concept = SavedConcept
    /\ LessonOpen([id |-> RestoredLessonId, topic |-> "t",
                   annotations |-> <<>>])
    /\ popover = NoPopover
    /\ nextId = 1
    /\ last = Event("init", "", NoSelection, FALSE, FALSE)
    /\ \E k \in 0..MaxFrags :
           \E f \in [1..k -> 1..Len(Lexicon)] : tokText = TokInput(f)
    /\ tokOut = <<>>
    /\ tokDone = FALSE
    /\ scanIndex = 0

\* SyntaxHighlightedText rendered for tokText
RenderTokens ==
    /\ ~tokDone
    /\ tokOut' = Tokenize(tokText)
    /\ tokDone' = TRUE
    /\ UNCHANGED <<concept, lesson, popover, nextId, last, tokText, scanIndex,
                   folders, navVars>>

NextTok == RenderTokens

SpecTok == InitTok /\ [][NextTok]_vars

\* ------------------------------------------------------------------------
\* The tokenizer's scan loop, one exec at a time
\* ------------------------------------------------------------------------

\* the longest input of the scan, in fragments
MaxScanFrags == 2

InitScan ==
    /\ concept = SavedConcept
    /\ LessonOpen([id |-> RestoredLessonId, topic |-> "t",
                   annotations |-> <<>>])
    /\ popover = NoPopover
    /\ nextId = 1
    /\ last = Event("init", "", NoSelection, FALSE, FALSE)
    /\ \E k \in 0..MaxScanFrags :
           \E f \in [1..k -> 1..Len(Lexicon)] : tokText = TokInput(f)
    /\ tokOut = <<>>
    /\ tokDone = FALSE
    /\ scanIndex = 0

\* one evaluation of the loop condition, masterRegex.exec(text), with the
\* body it leads to: for a match the span of the unmatched text before it,
\* the span of the match, and lastIndex = masterRegex.lastIndex; for null
\* the span of the remaining text after the loop
ExecStep ==
    /\ ~tokDone
    /\ LET m == Exec(tokText, scanIndex)
       IN  IF m = NoMatch
           THEN /\ tokOut' = IF scanIndex < Len(tokText)
                             THEN Append(tokOut,
                                         Token(scanIndex, "plain",
                                               SubstringFrom(tokText, scanIndex)))
                             ELSE tokOut
                /\ tokDone' = TRUE
                /\ scanIndex' = scanIndex
           ELSE /\ tokOut' =
                       Append(IF m.index > scanIndex
                              THEN Append(tokOut,
                                          Token(scanIndex, "plain",
                                                Substring(tokText, scanIndex,
                                                          m.index)))
                              ELSE tokOut,
                              Token(m.index, ClassOf(tokText, m),
                                    Substring(tokText, m.index, m.end)))
                /\ tokDone' = FALSE
                /\ scanIndex' = m.end
    /\ UNCHANGED <<concept, lesson, popover, nextId, last, tokText, folders,
                   navVars>>

NextScan == ExecStep

\* the loop runs to completion within the render that started it
SpecScan == InitScan /\ [][NextScan]_vars /\ WF_vars(ExecStep)

\* ------------------------------------------------------------------------
\* The arrays the list operations read and allocate
\* ------------------------------------------------------------------------

\* Each operation is followed through the arrays it touches: input is the
\* array it is given (the one the lesson holds) and output the array it
\* allocates.  filter, map and the spread allocate; sort works in place on
\* its receiver.

\* a renderer that sorts the array it is given before it filters
RelevantHeap_SortsInput(annotations, conceptId, fieldName) ==
    LET keep(a) == a.conceptId = conceptId /\ a.fieldName = fieldName
        h0 == [input |-> annotations, output |-> <<>>]
        h1 == [h0 EXCEPT !.input = SortByStart(@)]
    IN  [h1 EXCEPT !.output = SelectSeq(h1.input, keep)]

\* annotations.filter(...).sort(...): filter allocates the output, sort
\* reorders the array filter returned
RelevantHeap(annotations, conceptId, fieldName) ==
    LET keep(a) == a.conceptId = conceptId /\ a.fieldName = fieldName
        h0 == [input |-> annotations, output |-> <<>>]
        h1 == [h0 EXCEPT !.output = SelectSeq(h0.input, keep)]
    IN  [h1 EXCEPT !.output = SortByStart(@)]

\* [...(lesson.annotations || []), newAnnotation]
AddHeap(annotations, newAnnotation) ==
    [input |-> annotations, output |-> Append(annotations, newAnnotation)]

\* (lesson.annotations || []).map(a => a.id === id ? { ...a, note } : a)
SaveHeap(annotations, id, note) ==
    [input |-> annotations,
     output |-> [i \in 1..Len(annotations) |->
                    IF annotations[i].id = id
                    THEN [annotations[i] EXCEPT !.note = note]
                    ELSE annotations[i]]]

\* (lesson.annotations || []).filter(a => a.id !== id)
DeleteHeap(annotations, id) ==
    [input |-> annotations,
     output |-> SelectSeq(annotations, LAMBDA a : a.id # id)]

\* ------------------------------------------------------------------------
\* Properties
\* ------------------------------------------------------------------------

\* the fields whose container is on the page
RenderedFields ==
    {FieldNames[i] : i \in {j \in 1..Len(FieldNames) :
                               FieldRendered(concept, FieldNames[j])}}

\* the marks among the parts of a field, in order
MarkParts(fieldName) ==
    SelectSeq(Parts(concept, fieldName, lesson.annotations), LAMBDA p : p.mark)

\* the merge cursor lastIndex when the k-th relevant annotation is visited
CursorBefore(relevant, k) == IF k = 1 THEN 0 ELSE relevant[k - 1].endIndex

\* C1: in every state the UI reaches, the parts the merge emits for a field,
\* concatenated in order, are the field's text: no character is missing and
\* none is emitted twice.
C1_MergeCoversTextOnce ==
    \A f \in RenderedFields :
        DomText(Dom(concept, f, lesson.annotations)) = FieldText(concept, f)

\* C2: an annotation that starts before the merge cursor is shown as the
\* range from max(startIndex, lastIndex) to endIndex only.
C2_OverlapPrefixDropped ==
    \A f \in RenderedFields :
        LET relevant == RelevantAnnotations(lesson.annotations, ConceptId, f)
            marks == MarkParts(f)
        IN  \A k \in 1..Len(relevant) :
                relevant[k].startIndex < CursorBefore(relevant, k)
                => marks[k].text =
                       Substring(FieldText(concept, f),
                                 Max(relevant[k].startIndex,
                                     CursorBefore(relevant, k)),
                                 relevant[k].endIndex)

\* C8: in the code field every rendered character has the token kind it
\* gets when the whole code is tokenized at once.
C8_SplitKeepsTokenKinds ==
    "codeExample" \in RenderedFields
    => LET code == FieldText(concept, "codeExample")
           whole == Tokenize(code)
           dom == Dom(concept, "codeExample", lesson.annotations)
       IN  \A i \in 1..Len(dom) :
               dom[i].src < Len(code) => dom[i].kind = KindAt(whole, dom[i].src)

\* the mouse-up handled last created the annotation at the end of the list
CreatedByLast ==
    /\ last.op = "mouseUp"
    /\ ~last.wasOpen
    /\ popover.open
    /\ popover.isNew
    /\ lesson.annotations # <<>>
    /\ lesson.annotations[Len(lesson.annotations)] = popover.data

\* C3: an annotation created by a selection lies within the text of its
\* field at the moment it is created: 0 <= startIndex < endIndex <= length
\* of the text.
C3_OffsetsWithinText ==
    CreatedByLast
    => /\ 0 <= popover.data.startIndex
       /\ popover.data.startIndex < popover.data.endIndex
       /\ popover.data.endIndex
              <= Len(FieldText(concept, popover.data.fieldName))

\* C4: the startIndex of a created annotation is the number of characters of
\* the field text before the first selected character, and its endIndex is
\* startIndex plus the length of the selected text, whatever is highlighted
\* in the field.
C4_OffsetsAreTextOffsets ==
    CreatedByLast
    => /\ popover.data.startIndex = last.sel.src
       /\ popover.data.endIndex = popover.data.startIndex
                                  + (last.sel.end - last.sel.start)

\* a mouse-up with no popover open found, within the field's container, a
\* non-blank selection with an endpoint in a text node of a mark
EndpointInMark(e) ==
    /\ e.op = "mouseUp"
    /\ ~e.wasOpen
    /\ e.sel.kind = "inside"
    /\ ~e.sel.blank
    /\ (e.sel.startMark \/ e.sel.endMark)

\* C5: a selection with an endpoint inside a rendered highlight is rejected
\* in prose and in code fields: the annotation list is unchanged, no popover
\* opens and the selection is cleared.
C5_SelectionInMarkRejected ==
    [][EndpointInMark(last')
       => /\ lesson'.annotations = lesson.annotations
          /\ ~popover'.open
          /\ last'.removed]_vars

\* a mouse-up found no selection, a blank one, or one that is not contained
\* in the field's container
NothingToCapture(e) ==
    /\ e.op = "mouseUp"
    /\ (e.sel.kind \in {"none", "outside"} \/ e.sel.blank)

\* C6: a mouse-up with an empty, collapsed or blank selection, or with a
\* range that is not contained in the field's container, leaves the
\* annotation list unchanged and the popover closed.
C6_NothingCapturedNoChange ==
    [][NothingToCapture(last')
       => /\ lesson' = lesson
          /\ ~popover'.open]_vars

\* C6 witness: with annotations in the list and no popover open, a mouse-up
\* found a non-blank range reaching outside the container
C6_Witness ==
    /\ last.op = "mouseUp"
    /\ ~last.wasOpen
    /\ last.sel.kind = "outside"
    /\ ~last.sel.blank
    /\ ~last.sel.startMark
    /\ ~last.sel.endMark
    /\ lesson.annotations # <<>>

\* C10: a field with a single annotation whose offsets lie within the text
\* shows, in the highlight, the text between those offsets.
C10_SingleAnnotationRoundTrip ==
    \A f \in RenderedFields :
        LET relevant == RelevantAnnotations(lesson.annotations, ConceptId, f)
            text == FieldText(concept, f)
        IN  (/\ Len(relevant) = 1
             /\ 0 <= relevant[1].startIndex
             /\ relevant[1].startIndex < relevant[1].endIndex
             /\ relevant[1].endIndex <= Len(text))
            => MarkParts(f)[1].text =
                   Substring(text, relevant[1].startIndex, relevant[1].endIndex)

\* the offset at which the k-th token ends
TokenEnd(tokens, k) == tokens[k].start + Len(tokens[k].text)

CapitalisedCallSite(text, tokens, k) ==
    /\ tokens[k].text[1] \in Upper
    /\ \A i \in 1..Len(tokens[k].text) : tokens[k].text[i] \in WordChars
    /\ LET e == RunEnd(text, TokenEnd(tokens, k), Whitespace)
       IN  e < Len(text) /\ text[e + 1] = "("

\* the tokens before the k-th that are not white space only
NonBlankBefore(tokens, k) ==
    {j \in 1..(k - 1) : Trim(tokens[j].text) # <<>>}

\* the nearest token before the k-th that is not white space is the keyword new
PrecededByNew(tokens, k) ==
    /\ NonBlankBefore(tokens, k) # {}
    /\ LET j == CHOOSE j \in NonBlankBefore(tokens, k) :
                    \A i \in NonBlankBefore(tokens, k) : i <= j
       IN  /\ tokens[j].kind = "keyword"
           /\ tokens[j].text = <<"n", "e", "w">>

\* C9: a capitalised call-site identifier is rendered as a class name if the
\* nearest token before it that is not white space is the keyword new, and
\* as a function call otherwise.
C9_ClassNameIffAfterNew ==
    tokDone
    => \A k \in 1..Len(tokOut) :
           CapitalisedCallSite(tokText, tokOut, k)
           => tokOut[k].kind = IF PrecededByNew(tokOut, k)
                               THEN "className" ELSE "function"

\* C11: an annotation whose offsets reach beyond the text of its field is
\* rendered clamped to the text: its highlight shows the text from
\* startIndex to the end of the text and nothing more.
C11_StaleOffsetsClamped ==
    \A f \in RenderedFields :
        LET relevant == RelevantAnnotations(lesson.annotations, ConceptId, f)
            text == FieldText(concept, f)
        IN  \A k \in 1..Len(relevant) :
                (\/ relevant[k].endIndex > Len(text)
                 \/ relevant[k].startIndex > Len(text))
                => MarkParts(f)[k].text
                       = Substring(text, relevant[k].startIndex, Len(text))

\* C12: no two annotations of the lesson share an id: an annotation whose
\* id is already in the list is not added.
C12_IdsUnique ==
    \A i, j \in 1..Len(lesson.annotations) :
        i # j => lesson.annotations[i].id # lesson.annotations[j].id

\* C13: saving a note keeps the length and order of the list and the topic,
\* leaves every annotation with another id as it was, and changes nothing
\* but the note in the annotation the popover is open on.
C13_SaveChangesOnlyNote ==
    [][last'.op = "save"
       => /\ lesson'.topic = lesson.topic
          /\ Len(lesson'.annotations) = Len(lesson.annotations)
          /\ \A i \in 1..Len(lesson.annotations) :
                 LET old == lesson.annotations[i]
                     new == lesson'.annotations[i]
                 IN  IF old.id = popover.data.id
                     THEN /\ new = [old EXCEPT !.note = new.note]
                          /\ new.note \in Notes
                     ELSE new = old]_vars

\* C13 witness: a note was saved in the first of two annotations and the
\* second has none
C13_Witness ==
    /\ last.op = "save"
    /\ Len(lesson.annotations) = 2
    /\ lesson.annotations[1].note = "n"
    /\ lesson.annotations[2].note = ""

\* the positions of a list whose annotation has another id
OtherIds(annotations, id) ==
    {i \in 1..Len(annotations) : annotations[i].id # id}

\* C14: deleting removes the annotation the popover is open on and nothing
\* else: the annotations with another id are all still there, as they were
\* and in the same order, and the topic and the concept are unchanged.
C14_DeleteRemovesOnlyThatEntry ==
    [][last'.op = "delete"
       => LET old == lesson.annotations
              new == lesson'.annotations
              keep == OtherIds(old, popover.data.id)
          IN  /\ Cardinality(keep) < Len(old)
              /\ Len(new) = Cardinality(keep)
              /\ \A i \in keep :
                     new[Cardinality({j \in keep : j <= i})] = old[i]
              /\ lesson'.topic = lesson.topic
              /\ concept' = concept]_vars

\* C14 witness: an annotation in the middle of the list was deleted, and
\* the ones made before and after it are still there
C14_Witness ==
    /\ last.op = "delete"
    /\ last.wasOn = StoredAnnotations[4].id
    /\ Len(lesson.annotations) = 4
    /\ SubSeq(lesson.annotations, 1, 3) = SubSeq(StoredAnnotations, 1, 3)
    /\ lesson.annotations[4].id = 1

\* the positions of the lesson's list that hold an annotation of a concept
\* and field
Matching(conceptId, fieldName) ==
    {i \in 1..Len(lesson.annotations) :
        /\ lesson.annotations[i].conceptId = conceptId
        /\ lesson.annotations[i].fieldName = fieldName}

\* C15: the list the renderer walks for a concept and field holds the
\* lesson's annotations of that concept and field, each once and no other,
\* in ascending order of startIndex.
C15_RelevantFilteredAndSorted ==
    \A conceptId \in {ConceptId, OtherConceptId} :
        \A f \in 1..Len(FieldNames) :
            LET relevant == RelevantAnnotations(lesson.annotations, conceptId,
                                                FieldNames[f])
                matching == Matching(conceptId, FieldNames[f])
            IN  /\ Len(relevant) = Cardinality(matching)
                /\ \A i \in matching :
                       \E k \in 1..Len(relevant) :
                           relevant[k] = lesson.annotations[i]
                /\ \A k \in 1..Len(relevant) :
                       \E i \in matching : relevant[k] = lesson.annotations[i]
                /\ \A k \in 1..(Len(relevant) - 1) :
                       relevant[k].startIndex <= relevant[k + 1].startIndex

\* C15 witness: the list holds annotations of another concept, in two of its
\* fields, and those of the definition shown are not in startIndex order
C15_Witness ==
    /\ \E i \in 1..Len(lesson.annotations) :
           lesson.annotations[i].conceptId = OtherConceptId
    /\ Matching(OtherConceptId, "notes") # {}
    /\ \E i, j \in Matching(ConceptId, "definition") :
           /\ i < j
           /\ lesson.annotations[i].startIndex > lesson.annotations[j].startIndex
    /\ last.op = "mouseUp"
    /\ CreatedByLast

C17_OnePopoverOnClicked ==
    [][/\ Len(NotePopovers) <= 1
       /\ Len(NotePopovers') <= 1
       /\ last'.op = "highlightClick"
          => \E a \in RenderedMarks :
                 /\ a.id = last'.on
                 /\ NotePopovers' = <<a>>]_vars

\* C17 witness: a highlight was clicked while the popover was open on
\* another annotation
C17_Witness ==
    /\ last.op = "highlightClick"
    /\ last.wasOpen
    /\ last.wasOn # popover.data.id
    /\ NotePopovers # <<>>

\* C18: with the popover open, Cancel, Save, Delete and a mouse-down outside
\* the popover element each close it, and a mouse-down inside the popover
\* element leaves it as it is.
C18_OpenPopoverTransitions ==
    [][popover.open
       => /\ last'.op \in {"close", "save", "delete", "mouseDownOutside"}
             => ~popover'.open
          /\ last'.op = "mouseDownInside"
             => popover' = popover /\ lesson' = lesson]_vars

\* C18 witness: the mouse was pressed inside the popover of an annotation
\* just created, and the popover is still open on it
C18_Witness ==
    /\ last.op = "mouseDownInside"
    /\ last.wasOn = popover.data.id
    /\ popover.open
    /\ popover.isNew

\* a mouse-up with no popover open found a selection that is not blank,
\* lies in the field's container and has no endpoint in a highlight
ValidSelection(e) ==
    /\ e.op = "mouseUp"
    /\ ~e.wasOpen
    /\ e.sel.kind = "inside"
    /\ ~e.sel.blank
    /\ ~e.sel.startMark
    /\ ~e.sel.endMark

\* C19: once a mouse-up with a valid selection and no popover open has been
\* handled by the field and by main, the list is the old list followed by
\* one annotation with the concept, the field, the captured offsets, the
\* selected text and an empty note, and the popover is open on it as new.
C19_ValidSelectionCreates ==
    [][ValidSelection(last')
       => LET n == Len(lesson.annotations)
              dom == Dom(concept, last'.field, lesson.annotations)
          IN  /\ Len(lesson'.annotations) = n + 1
              /\ SubSeq(lesson'.annotations, 1, n) = lesson.annotations
              /\ lesson'.annotations[n + 1].conceptId = ConceptId
              /\ lesson'.annotations[n + 1].fieldName = last'.field
              /\ lesson'.annotations[n + 1].startIndex = last'.sel.start
              /\ lesson'.annotations[n + 1].endIndex = last'.sel.end
              /\ lesson'.annotations[n + 1].targetText
                     = SubSeq(DomText(dom), last'.sel.start + 1, last'.sel.end)
              /\ lesson'.annotations[n + 1].note = ""
              /\ popover'.open
              /\ popover'.isNew
              /\ popover'.data = lesson'.annotations[n + 1]]_vars

\* C19 witness: a valid selection has just added a second annotation to the
\* list
C19_Witness ==
    /\ ValidSelection(last)
    /\ Len(lesson.annotations) = 2
    /\ popover.isNew
    /\ popover.data = lesson.annotations[2]

\* C20: a click on a highlight with no popover open opens the popover in
\* edit mode on the annotation of the list that the highlight was rendered
\* for, with that annotation's note in the textarea, and leaves the list as
\* it is.
C20_ClickOpensEdit ==
    [][(last'.op = "highlightClick" /\ ~popover.open)
       => /\ lesson' = lesson
          /\ popover'.open
          /\ ~popover'.isNew
          /\ \E i \in 1..Len(lesson.annotations) :
                 /\ lesson.annotations[i].id = last'.on
                 /\ lesson.annotations[i] \in RenderedMarks
                 /\ popover'.data = lesson.annotations[i]
                 /\ NoteText' = lesson.annotations[i].note]_vars

\* C20 witness: with no popover open, the highlight of the second
\* annotation, which has a saved note, was clicked
C20_Witness ==
    /\ last.op = "highlightClick"
    /\ ~last.wasOpen
    /\ Len(lesson.annotations) = 2
    /\ last.on = lesson.annotations[2].id
    /\ lesson.annotations[2].note = "n"
    /\ NoteText = "n"
    /\ ~popover.isNew

\* a second concept of the lesson, with the text the stored annotations of
\* that concept were made in
OtherConcept ==
    [definition |-> <<"x", "z">>,
     notes |-> <<"y">>,
     codeExample |-> <<>>]

\* the (concept, field) pairs of the page
Containers == {ConceptId, OtherConceptId} \X {"definition", "notes"}

\* what the container of a field of a concept shows for a list: its parts
ContainerParts(c, annotations) ==
    HighlightedContent(IF c[1] = ConceptId THEN FieldText(concept, c[2])
                       ELSE FieldText(OtherConcept, c[2]),
                       c[1], c[2], annotations)

\* the characters of that container in document order
ContainerDom(c, annotations) ==
    LET parts == ContainerParts(c, annotations)
    IN  Concat([i \in 1..Len(parts) |-> PartChars(c[2], parts[i])])

\* the annotations by which two lists differ: in one and not in the other,
\* or in both with another content
Touched(old, new) ==
    LET o == {old[i] : i \in 1..Len(old)}
        n == {new[i] : i \in 1..Len(new)}
    IN  (o \ n) \cup (n \ o)

C23_MouseUpWithPopoverCreatesNothing ==
    [][(popover.open /\ last'.op = "mouseUp")
       => /\ lesson' = lesson
          /\ nextId' = nextId
          /\ popover' \in {NoPopover, popover}]_vars

\* C23 witness: a mouse-up in the definition, with text selected, came while
\* the popover of an annotation was open, and has closed it
C23_Witness ==
    /\ last.op = "mouseUp"
    /\ last.wasOpen
    /\ last.field = "definition"
    /\ last.sel = UnreadSelection
    /\ lesson.annotations # <<>>
    /\ ~popover.open

\* C26: Cancel and a mouse-down outside the popover leave the lesson as it
\* is; when the popover was that of an annotation a selection had just
\* made, the annotation is still in the list, with an empty note.
C26_CloseKeepsList ==
    [][(popover.open /\ last'.op \in {"close", "mouseDownOutside"})
       => /\ lesson' = lesson
          /\ popover.isNew
             => \E i \in 1..Len(lesson'.annotations) :
                    /\ lesson'.annotations[i] = popover.data
                    /\ lesson'.annotations[i].note = ""]_vars

\* C26 witness: the popover a selection opened was cancelled and the
\* annotation is in the list
C26_Witness ==
    /\ last.op = "close"
    /\ last.wasNew
    /\ \E i \in 1..Len(lesson.annotations) :
           /\ lesson.annotations[i].id = last.wasOn
           /\ lesson.annotations[i].note = ""
    /\ Len(lesson.annotations) = Len(last.before) + 1

C29_CodeContainerShowsCode ==
    FieldRendered(concept, "codeExample")
    => /\ DomText(Dom(concept, "codeExample", lesson.annotations))
              = FieldText(concept, "codeExample")
       /\ SnippetContainerText(concept.codeExample, ConceptId,
                               lesson.annotations)
              = FieldText(concept, "codeExample")

\* C28: no span of the scan holds an empty text; every exec that matches
\* moves lastIndex forward; the scan of the empty string renders nothing;
\* and the scan of every text ends, with the elements the tokenizer renders
\* for it.
C28_ScanTerminates ==
    /\ [](\A k \in 1..Len(tokOut) : tokOut[k].text # <<>>)
    /\ [][scanIndex' > scanIndex \/ tokDone']_vars
    /\ []((tokDone /\ tokText = <<>>) => tokOut = <<>>)
    /\ [](tokDone => tokOut = Tokenize(tokText))
    /\ <>tokDone

\* C28 witness: the scan of a text has ended after three spans or more
C28_Witness ==
    /\ tokDone
    /\ Len(tokOut) >= 3
    /\ scanIndex > 0

\* the lessons a folders value holds
StoredLessons(fs) ==
    UNION {{fs[f].lessons[l] : l \in 1..Len(fs[f].lessons)} : f \in 1..Len(fs)}

\* the handlers of the lesson view that call onUpdateLesson
LessonMutations == {"mouseUp", "save", "delete", "titleSave"}

\* C21: the lessons App holds change only by the user's actions on them, one
\* at a time: a step that handles such an action on the lesson shown leaves
\* the lesson its handler computed from the lesson shown, and every other
\* step, and every other lesson, keeps topic and annotation list.
C21_MutationsAppliedInOrder ==
    [][\A x \in StoredLessons(folders) :
           IF LessonViewShown /\ x.id = lesson.id /\ last'.op \in LessonMutations
           THEN /\ lesson' \in StoredLessons(folders')
                /\ lesson'.id = x.id
           ELSE x \in StoredLessons(folders')]_vars

\* C24: the step in which a generation completes and its lesson is inserted
\* keeps every folder App held, with its name and with every lesson in it as
\* it was.
C24_ChangesSurviveGeneration ==
    [][last'.op = "lessonCreated"
       => \A f \in 1..Len(folders) :
              \E g \in 1..Len(folders') :
                  /\ folders'[g].id = folders[f].id
                  /\ folders'[g].name = folders[f].name
                  /\ \A l \in 1..Len(folders[f].lessons) :
                         \E k \in 1..Len(folders'[g].lessons) :
                             folders'[g].lessons[k] = folders[f].lessons[l]]_vars

\* C25: an open popover shows an annotation, by id, of the list of the
\* lesson the lesson view shows.
C25_PopoverOnListedAnnotation ==
    popover.open
    => /\ LessonViewShown
       /\ \E i \in 1..Len(lesson.annotations) :
              lesson.annotations[i].id = popover.data.id

\* the lessons created so far: the one restored, and those for which
\* crypto.randomUUID() has been drawn
CreatedLessonIds == {RestoredLessonId} \cup 1..(nextLessonId - 1)

\* C30: every lesson created is in one folder, at one place.
C30_LessonInOneFolder ==
    \A id \in CreatedLessonIds :
        Cardinality({<<f, l>> \in (1..Len(folders)) \X (1..(MaxLessons + 1)) :
                        /\ l <= Len(folders[f].lessons)
                        /\ folders[f].lessons[l].id = id}) = 1

====
